---- MODULE Spec2Model ----
(***************************************************************************)
(* Model of src/index.js: the Logger class (six leveled methods and the    *)
(* notification method sendToTg), its two message formatters and the       *)
(* Telegram transport sendMsgToTg.                                         *)
(*                                                                         *)
(* The logger holds no mutable state after construction, so calls do not   *)
(* interfere with each other.  The model therefore observes one call at a  *)
(* time, from its start to its completion: `events` is what the call has   *)
(* written to the console and sent to the network so far, in order.        *)
(***************************************************************************)
EXTENDS Naturals, Sequences, FiniteSets, TLC

\* Number of calls made on one logger instance.
MaxCalls == 2

\* The JS values undefined and null (an option or an argument that is absent).
Undefined == "<undefined>"
Null == "<null>"

DEFAULT_LEVELS ==
  [trace |-> 10, debug |-> 20, info |-> 30, warn |-> 40,
   error |-> 50, fatal |-> 60, unspecified |-> 70]

API_URL == "https://api.telegram.org/bot"

LevelNames == DOMAIN DEFAULT_LEVELS
LeveledMethods == {"trace", "debug", "info", "warn", "error", "fatal"}

(***************************************************************************)
(* Message values.  A value is described by its JS type, its plain string  *)
(* form (str), the result of JSON.stringify(value, null, 2) (json, or      *)
(* cyclic = TRUE when JSON.stringify throws a TypeError), and, for an      *)
(* Error, its name, message and stack.                                     *)
(***************************************************************************)
Value(type, str, json, cyclic, name, message, stack) ==
  [type |-> type, str |-> str, json |-> json, cyclic |-> cyclic,
   name |-> name, message |-> message, stack |-> stack]

String(s) == Value("string", s, "", FALSE, "", "", "")
Object(json) == Value("object", "[object Object]", json, FALSE, "", "", "")
CyclicObject == Value("object", "[object Object]", "", TRUE, "", "", "")
\* An Error is an object with no enumerable own properties: JSON.stringify gives {}.
Error(name, message) ==
  Value("error", name \o ": " \o message, "{}", FALSE, name, message,
        name \o ": " \o message \o "\n    at <stack>")

\* No exception.
NoError == Value("undefined", "undefined", "", FALSE, "", "", "")

Messages ==
  { String("x"), Object("{\n  \"id\": 1\n}"), CyclicObject, Error("Error", "boom") }
Labels == { Undefined, "label" }

instanceofError(v) == v.type = "error"
typeofObject(v) == v.type \in {"object", "error"}
JSONstringifyThrows(v) == v.cyclic
JSONstringify(v) == v.json

(***************************************************************************)
(* A formatter either throws (threw = TRUE) or returns a value.            *)
(***************************************************************************)
Throw == [threw |-> TRUE, value |-> Null]
Return(v) == [threw |-> FALSE, value |-> v]

\* The level names of Yandex Cloud Logging known to prepareMessageForYC.
YCLevels ==
  [debug |-> "DEBUG", info |-> "INFO", warn |-> "WARN",
   error |-> "ERROR", fatal |-> "FATAL", trace |-> "TRACE"]

\* prepareMessageForYC with the level passed through when it is not in the table.
prepareMessageForYC_RawLevel(lvl, msg, label) ==
  LET lab == IF label = Undefined THEN Null ELSE label
      text == IF instanceofError(msg)
              THEN msg.name \o ": " \o msg.message \o "\n" \o msg.stack
              ELSE IF typeofObject(msg) THEN JSONstringify(msg) ELSE msg.str
      message == IF lab # Null THEN lab \o ":>> " \o text ELSE text
  IN IF ~instanceofError(msg) /\ typeofObject(msg) /\ JSONstringifyThrows(msg)
     THEN Throw
     ELSE Return([level |-> IF lvl \in DOMAIN YCLevels THEN YCLevels[lvl] ELSE lvl,
                  message |-> message])

\* prepareMessageForYC(level, msg, label = null): the structured record
\* {level, message}.  An Error becomes "name: message\nstack" (a string, so
\* the object branch no longer applies to it); any other object is
\* JSON.stringify'd, which throws on a cyclic value; the label is prefixed
\* when it is not null (an undefined argument takes the default null).
prepareMessageForYC(lvl, msg, label) ==
  LET lab == IF label = Undefined THEN Null ELSE label
      text == IF instanceofError(msg)
              THEN msg.name \o ": " \o msg.message \o "\n" \o msg.stack
              ELSE IF typeofObject(msg) THEN JSONstringify(msg) ELSE msg.str
      message == IF lab # Null THEN lab \o ":>> " \o text ELSE text
  IN IF ~instanceofError(msg) /\ typeofObject(msg) /\ JSONstringifyThrows(msg)
     THEN Throw
     ELSE Return([level |-> IF lvl \in DOMAIN YCLevels
                            THEN YCLevels[lvl] ELSE "UNSPECIFIED",
                  message |-> message])

COLORS ==
  [black |-> "0", red |-> "1", green |-> "2", yellow |-> "3",
   blue |-> "4", magenta |-> "5", cyan |-> "6", white |-> "7"]
ANSI == [b |-> "1", f |-> "2", i |-> "3", u |-> "4", l |-> "5",
         h |-> "6", n |-> "7", c |-> "8", s |-> "9"]
\* The escape character is written ESC.
esc(code, s) == "ESC[" \o code \o "m" \o s \o "ESC[0m"
colorCode(color, background) ==
  IF background THEN "4" \o COLORS[color] ELSE "3" \o COLORS[color]
ConsoleLevels ==
  [debug |-> colorCode("blue", FALSE), info |-> colorCode("green", FALSE),
   warn |-> colorCode("yellow", FALSE), error |-> colorCode("red", FALSE),
   fatal |-> colorCode("red", TRUE), trace |-> colorCode("cyan", FALSE),
   unspecified |-> colorCode("magenta", FALSE)]
\* level.toUpperCase() on the seven level names.
toUpperCase ==
  [trace |-> "TRACE", debug |-> "DEBUG", info |-> "INFO", warn |-> "WARN",
   error |-> "ERROR", fatal |-> "FATAL", unspecified |-> "UNSPECIFIED"]
\* new Date().toLocaleString(): the wall clock is outside the model.
date == "<date>"

\* prepareMessageForConsole(level, msg, label = null): one terminal line.
prepareMessageForConsole(lvl, msg, label) ==
  LET lab == IF label = Undefined THEN Null ELSE label
      text == IF instanceofError(msg)
              THEN msg.name \o ": " \o msg.message \o "\n" \o msg.stack
              ELSE IF typeofObject(msg) THEN JSONstringify(msg) ELSE msg.str
      escLabel == IF lab # Null THEN esc(ANSI["u"], lab) \o ":>> " ELSE ""
  IN IF ~instanceofError(msg) /\ typeofObject(msg) /\ JSONstringifyThrows(msg)
     THEN Throw
     ELSE Return(date \o ": " \o esc(ConsoleLevels[lvl], toUpperCase[lvl])
                 \o ": " \o escLabel \o " " \o text)

(***************************************************************************)
(* The Logger class.                                                       *)
(***************************************************************************)
VARIABLES
  options,  \* the argument of Logger.create / the constructor
  this,     \* the private fields #runtime #handler #header #level #chatId #botToken
  pc,       \* where the observed call is: "idle", "fetch" (awaiting fetch),
            \* "json" (awaiting response.json())
  call,     \* the observed call: its method, msg and label
  events,   \* the console writes and network requests of the observed call, in order
  result,   \* how the observed call ended: "returned" / "threw" for a leveled
            \* method, "resolved" / "rejected" for the promise of sendToTg
  failure,  \* the exception caught by sendToTg's catch, or NoError
  ncalls,   \* calls made so far
  nfetch    \* fetch() calls issued so far, over all calls

vars == <<options, this, pc, call, events, result, failure, ncalls, nfetch>>

Options ==
  [runtime : {Undefined, "local", "yc"},
   header : {Undefined, "Header"},
   level : LevelNames \cup {Undefined},
   chatId : {Undefined, "-1001234567890"},
   botToken : {Undefined, "TOKEN"}]

\* The constructor with the formatter selection inverted.
constructor_SwappedHandler(o) ==
  [runtime |-> IF o.runtime # Undefined THEN o.runtime ELSE "yc",
   handler |-> IF o.runtime = "local"
               THEN "prepareMessageForYC" ELSE "prepareMessageForConsole",
   header |-> o.header,
   level |-> IF o.level \in DOMAIN DEFAULT_LEVELS
             THEN DEFAULT_LEVELS[o.level] ELSE DEFAULT_LEVELS["debug"],
   chatId |-> o.chatId,
   botToken |-> o.botToken]

\* constructor(options): runtime || 'yc'; the formatter by runtime === 'local';
\* DEFAULT_LEVELS[level] || DEFAULT_LEVELS['debug'].
constructor(o) ==
  [runtime |-> IF o.runtime # Undefined THEN o.runtime ELSE "yc",
   handler |-> IF o.runtime = "local"
               THEN "prepareMessageForConsole" ELSE "prepareMessageForYC",
   header |-> o.header,
   level |-> IF o.level \in DOMAIN DEFAULT_LEVELS
             THEN DEFAULT_LEVELS[o.level] ELSE DEFAULT_LEVELS["debug"],
   chatId |-> o.chatId,
   botToken |-> o.botToken]

\* this.#handler(level, msg, label)
handler(lvl, msg, label) ==
  IF this.handler = "prepareMessageForConsole"
  THEN prepareMessageForConsole(lvl, msg, label)
  ELSE prepareMessageForYC(lvl, msg, label)

\* console.log(value): one write to standard output.  `handler` and `level`
\* record which formatter produced the value and for which level.
consoleLog(lvl, value) ==
  [kind |-> "write", stream |-> "stdout", handler |-> this.handler,
   level |-> lvl, value |-> value]

\* #log without the severity gate.
log_NoGate(lvl, msg, label) ==
  LET r == handler(lvl, msg, label)
  IN IF r.threw THEN [threw |-> TRUE, out |-> << >>]
     ELSE [threw |-> FALSE, out |-> << consoleLog(lvl, r.value) >>]

\* #log writing error and fatal to the error stream.
log_ErrorStream(lvl, msg, label) ==
  IF this.level <= DEFAULT_LEVELS[lvl]
  THEN LET r == handler(lvl, msg, label)
       IN IF r.threw THEN [threw |-> TRUE, out |-> << >>]
          ELSE [threw |-> FALSE,
                out |-> << [consoleLog(lvl, r.value) EXCEPT
                             !.stream = IF lvl \in {"error", "fatal"}
                                        THEN "stderr" ELSE "stdout"] >>]
  ELSE [threw |-> FALSE, out |-> << >>]

\* #log(level, msg, label): if (this.#level <= DEFAULT_LEVELS[level])
\* console.log(this.#handler(level, msg, label)).  The formatter runs before
\* console.log, so a formatter that throws writes nothing.
log(lvl, msg, label) ==
  IF this.level <= DEFAULT_LEVELS[lvl]
  THEN LET r == handler(lvl, msg, label)
       IN IF r.threw THEN [threw |-> TRUE, out |-> << >>]
          ELSE [threw |-> FALSE, out |-> << consoleLog(lvl, r.value) >>]
  ELSE [threw |-> FALSE, out |-> << >>]

Init ==
  /\ options \in Options
  /\ this = constructor(options)
  /\ pc = "idle"
  /\ call = [method |-> "none", msg |-> String(""), label |-> Undefined]
  /\ events = << >>
  /\ result = "none"
  /\ failure = NoError
  /\ ncalls = 0
  /\ nfetch = 0

\* A leveled method: const level = '<name>'; this.#log(level, msg, label).
Leveled(method, msg, label) ==
  /\ pc = "idle"
  /\ ncalls < MaxCalls
  /\ LET r == log(method, msg, label)
     IN /\ events' = r.out
        /\ result' = IF r.threw THEN "threw" ELSE "returned"
  /\ call' = [method |-> method, msg |-> msg, label |-> label]
  /\ failure' = NoError
  /\ ncalls' = ncalls + 1
  /\ UNCHANGED <<options, this, pc, nfetch>>

trace(msg, label) == Leveled("trace", msg, label)
debug(msg, label) == Leveled("debug", msg, label)
info(msg, label) == Leveled("info", msg, label)
warn(msg, label) == Leveled("warn", msg, label)
error(msg, label) == Leveled("error", msg, label)
fatal(msg, label) == Leveled("fatal", msg, label)

(***************************************************************************)
(* sendToTg and the transport.                                             *)
(***************************************************************************)
\* `${v}` in a template literal.
TemplateString(v) == IF v = Undefined THEN "undefined" ELSE v

\* The try block of sendToTg up to the call of sendMsgToTg: an Error becomes
\* "name: message", any other object is JSON.stringify'd, a truthy label and a
\* truthy header are prefixed.
preparedMsg(msg, label) ==
  LET text == IF instanceofError(msg) THEN msg.name \o ": " \o msg.message
              ELSE IF typeofObject(msg) THEN JSONstringify(msg) ELSE msg.str
      labelled == IF label # Undefined THEN label \o ":>> " \o text ELSE text
      headed == IF this.header # Undefined
                THEN this.header \o "\n\n" \o labelled ELSE labelled
  IN IF ~instanceofError(msg) /\ typeofObject(msg) /\ JSONstringifyThrows(msg)
     THEN Throw ELSE Return(headed)

\* sendMsgToTg up to its first await: the POST handed to fetch.  The extra
\* parameters spread into the body are not modelled.
sendMsgToTg(chatId, botToken, message) ==
  [kind |-> "fetch", method |-> "POST",
   url |-> API_URL \o TemplateString(botToken) \o "/sendMessage",
   body |-> [chat_id |-> chatId, text |-> message]]

\* The catch block swallowing the exception without logging it.
catch_Swallow(err) ==
  /\ events' = events
  /\ result' = "resolved"
  /\ failure' = err
  /\ pc' = "idle"

\* The catch block sending the message a second time.
catch_Retry(err) ==
  LET r == log("error", err, Undefined)
  IN /\ events' = events \o r.out \o << events[Len(events)] >>
     /\ result' = IF r.threw THEN "rejected" ELSE "resolved"
     /\ failure' = err
     /\ pc' = "idle"

\* catch (error) { this.error(error) }, after which the async function returns.
catch(err) ==
  LET r == log("error", err, Undefined)
  IN /\ events' = events \o r.out
     /\ result' = IF r.threw THEN "rejected" ELSE "resolved"
     /\ failure' = err
     /\ pc' = "idle"

\* sendToTg(msg, label) up to its first suspension.  this.#log runs before the
\* try block: an exception it raises rejects the returned promise.
sendToTg(msg, label) ==
  /\ pc = "idle"
  /\ ncalls < MaxCalls
  /\ call' = [method |-> "sendToTg", msg |-> msg, label |-> label]
  /\ ncalls' = ncalls + 1
  /\ LET l == log("unspecified", msg, label)
         p == preparedMsg(msg, label)
     IN IF l.threw
        THEN /\ events' = << >>
             /\ result' = "rejected"
             /\ failure' = NoError
             /\ pc' = "idle"
             /\ nfetch' = nfetch
        ELSE IF p.threw
        THEN LET err == Error("TypeError", "Converting circular structure to JSON")
                 r == log("error", err, Undefined)
             IN /\ events' = l.out \o r.out
                /\ result' = IF r.threw THEN "rejected" ELSE "resolved"
                /\ failure' = err
                /\ pc' = "idle"
                /\ nfetch' = nfetch
        ELSE /\ events' = l.out \o
                    << sendMsgToTg(this.chatId, this.botToken, p.value) >>
             /\ result' = "pending"
             /\ failure' = NoError
             /\ pc' = "fetch"
             /\ nfetch' = nfetch + 1
  /\ UNCHANGED <<options, this>>

\* await fetch(...) rejects (network failure).
fetchRejected ==
  /\ pc = "fetch"
  /\ catch(Error("TypeError", "fetch failed"))
  /\ UNCHANGED <<options, this, call, ncalls, nfetch>>

\* response.ok is false: throw new Error(`${status}: ${statusText}`).
responseNotOk ==
  /\ pc = "fetch"
  /\ catch(Error("Error", "404: Not Found"))
  /\ UNCHANGED <<options, this, call, ncalls, nfetch>>

\* response.ok is true: await response.json().
responseOk ==
  /\ pc = "fetch"
  /\ pc' = "json"
  /\ UNCHANGED <<options, this, call, events, result, failure, ncalls, nfetch>>

\* await response.json() rejects (the body is not JSON).
jsonRejected ==
  /\ pc = "json"
  /\ catch(Error("SyntaxError", "Unexpected token < in JSON at position 0"))
  /\ UNCHANGED <<options, this, call, ncalls, nfetch>>

\* The body has ok: false: throw new Error(`${error_code}: ${description}`).
bodyNotOk ==
  /\ pc = "json"
  /\ catch(Error("Error", "400: Bad Request: chat not found"))
  /\ UNCHANGED <<options, this, call, ncalls, nfetch>>

\* The body has ok: true: return result.  The Bot API accepts a message only
\* for a real token and chat.
bodyOk ==
  /\ pc = "json"
  /\ this.chatId # Undefined /\ this.botToken # Undefined
  /\ result' = "resolved"
  /\ pc' = "idle"
  /\ UNCHANGED <<options, this, call, events, failure, ncalls, nfetch>>

Next ==
  \/ \E msg \in Messages, label \in Labels :
       \/ trace(msg, label)
       \/ debug(msg, label)
       \/ info(msg, label)
       \/ warn(msg, label)
       \/ error(msg, label)
       \/ fatal(msg, label)
       \/ sendToTg(msg, label)
  \/ fetchRejected
  \/ responseNotOk
  \/ responseOk
  \/ jsonRejected
  \/ bodyNotOk
  \/ bodyOk

Spec == Init /\ [][Next]_vars

(***************************************************************************)
(* Properties.                                                             *)
(***************************************************************************)
\* The minimum level the configuration asks for (debug when none is given).
ConfiguredLevel == IF options.level = Undefined THEN "debug" ELSE options.level
Passes(method) == DEFAULT_LEVELS[method] >= DEFAULT_LEVELS[ConfiguredLevel]
Serializable(msg) == ~JSONstringifyThrows(msg)
HasCredentials == options.chatId # Undefined /\ options.botToken # Undefined
IsWrite(e) == e.kind = "write"
IsFetch(e) == e.kind = "fetch"
Writes == SelectSeq(events, IsWrite)
Fetches == SelectSeq(events, IsFetch)
IsErrorWrite(e) == e.kind = "write" /\ e.level = "error"
ErrorWrites == SelectSeq(events, IsErrorWrite)
\* What the formatter selected by the runtime option renders.
ExpectedHandler ==
  IF options.runtime = "local" THEN "prepareMessageForConsole" ELSE "prepareMessageForYC"
Expected(lvl, msg, label) ==
  IF options.runtime = "local"
  THEN prepareMessageForConsole(lvl, msg, label).value
  ELSE prepareMessageForYC(lvl, msg, label).value
WrittenBy(e, lvl, msg, label) ==
  /\ e.kind = "write"
  /\ e.handler = ExpectedHandler
  /\ e.value = Expected(lvl, msg, label)

\* C1: a leveled method whose rank is strictly below the rank of the configured
\* minimum level writes nothing to the console and issues no POST.
C1_BelowThresholdSilent ==
  (call.method \in LeveledMethods /\ ~Passes(call.method))
    => (events = << >> /\ result = "returned")

C1_Witness ==
  /\ options.level = "info"
  /\ call = [method |-> "debug", msg |-> String("x"), label |-> Undefined]
  /\ result = "returned"
  /\ events = << >>

C3_ErrorTierNotifies ==
  (call.method \in LeveledMethods /\ result \in {"returned", "threw"})
    => Len(Fetches) =
         (IF call.method \in {"error", "fatal"} /\ Passes(call.method) THEN 1 ELSE 0)

\* C4: the promise returned by sendToTg never rejects, whatever the message,
\* the configuration and the transport outcome.
C4_SendToTgNeverRejects ==
  call.method = "sendToTg" => result # "rejected"

C6_NoCredentialsNoNetwork ==
  ~HasCredentials => (nfetch = 0 /\ failure = NoError)

\* C7: a leveled call at or above the threshold never throws, whatever the
\* message, and writes one record.
C7_NormalizationNeverThrows ==
  (call.method \in LeveledMethods /\ Passes(call.method))
    => (result = "returned" /\ Len(Writes) = 1)

\* C8 as stated: writes for error and fatal go to the error stream, writes for
\* every other level go to standard output.
C8_StreamBySeverity ==
  \A i \in 1..Len(events) :
    IsWrite(events[i]) =>
      events[i].stream =
        (IF events[i].level \in {"error", "fatal"} THEN "stderr" ELSE "stdout")

\* C8 amended: every permitted write goes to standard output, for every level
\* (error and fatal included) and for both runtime modes.
C8_AllWritesToStdout ==
  \A i \in 1..Len(events) :
    IsWrite(events[i]) => events[i].stream = "stdout"

C8_Witness ==
  /\ call.method = "fatal"
  /\ result = "returned"
  /\ Len(events) = 1
  /\ events[1].stream = "stdout"
  /\ events[1].level = "fatal"

\* The upper-cased name of each of the seven levels.
UpperName(lvl) ==
  CASE lvl = "trace" -> "TRACE" [] lvl = "debug" -> "DEBUG"
    [] lvl = "info" -> "INFO" [] lvl = "warn" -> "WARN"
    [] lvl = "error" -> "ERROR" [] lvl = "fatal" -> "FATAL"
    [] OTHER -> "UNSPECIFIED"
SevenNames ==
  {"TRACE", "DEBUG", "INFO", "WARN", "ERROR", "FATAL", "UNSPECIFIED"}

\* C9: in every record the cloud formatter produces through a public method the
\* level field is one of the seven fixed names: a leveled method yields its
\* own upper-cased name, and sendToTg yields UNSPECIFIED for its own record
\* (and ERROR for the failure record its catch block logs through error).
C9_CloudLevelIsFixedName ==
  \A i \in 1..Len(events) :
    (IsWrite(events[i]) /\ events[i].handler = "prepareMessageForYC")
      => /\ events[i].value.level \in SevenNames
         /\ call.method \in LeveledMethods
              => events[i].value.level = UpperName(call.method)
         /\ call.method = "sendToTg"
              => events[i].value.level =
                   (IF i = 1 THEN "UNSPECIFIED" ELSE "ERROR")

C9_Witness ==
  /\ call.method = "sendToTg"
  /\ options.runtime = Undefined
  /\ Len(events) >= 1
  /\ IsWrite(events[1])
  /\ events[1].value.level = "UNSPECIFIED"

\* C10: for every configured minimum level, sendToTg with credentials present
\* and a serializable message writes its unspecified-level record first, then
\* issues exactly one POST, and issues no other whether the delivery succeeds
\* or fails.
C10_OnePostAfterLocalRecord ==
  (call.method = "sendToTg" /\ HasCredentials /\ Serializable(call.msg))
    => /\ result \in {"pending", "resolved"}
       /\ Len(Fetches) = 1
       /\ Len(events) >= 2
       /\ WrittenBy(events[1], "unspecified", call.msg, call.label)
       /\ events[1].level = "unspecified"
       /\ IsFetch(events[2])
       /\ events[2].method = "POST"

C10_Witness ==
  /\ call.method = "sendToTg"
  /\ HasCredentials
  /\ options.level = "unspecified"
  /\ result = "resolved"
  /\ failure = Error("TypeError", "fetch failed")
  /\ Len(Fetches) = 1
  /\ IsWrite(events[1])

====
